---- MODULE Spec2Model ----
(***************************************************************************)
(* A model of the capture / playback coordination code of vidtalker:       *)
(*   src/lib/audio-recorder.ts      the AudioRecorder class                *)
(*   src/hooks/media/use-live-api.ts the useLiveApi session coordinator    *)
(*                                                                         *)
(* JavaScript runs one task at a time.  Every action below is one          *)
(* synchronous run of code: an API call up to its first await, or the      *)
(* continuation of an await once the awaited browser operation settled.    *)
(* Promise reactions (the handleStop callbacks passed to starting.then)    *)
(* are microtasks: they are queued when the promise resolves and run       *)
(* before the next browser event is delivered.                             *)
(***************************************************************************)
EXTENDS Integers, Sequences, FiniteSets, TLC

\* ------------------------------------------------------------- bounds
MaxRecorders == 2
MaxStarts == 2
MaxStops == 1
MaxFrames == 2
MaxVolumeEvents == 1
MaxConnects == 1
MaxAudio == 3
MaxInterrupts == 1
MaxTime == 4
MaxCaptureFrames == 1
MaxSamples == 3
MaxTools == 3
MaxToolCalls == 2
MaxFunctionCalls == 2

Rec == 1..MaxRecorders
CallId == 1..MaxStarts

\* ------------------------------------------------------------- state
VARIABLES
  mediaDevices,   \* navigator.mediaDevices offers getUserMedia / getDisplayMedia
  rec,            \* rec[r]: the fields of AudioRecorder r
  calls,          \* calls[r]: one record per start()/startScreenCapture() executor
  stops,          \* stops[r]: one record per stop() call (what was in flight then)
  microtasks,     \* microtasks[r]: queued handleStop reactions (stop ids)
  stoppedTracks,  \* stoppedTracks[r]: streams whose tracks had track.stop()
  port,           \* port[r]: worklet messages posted and not yet delivered
  produced,       \* produced[r]: every frame the recording worklet posted
  dataEmitted,    \* dataEmitted[r]: every emitter.emit('data', s)
  volumeEvents,   \* volumeEvents[r]: number of emitter.emit('volume', v)
  listeners,      \* listeners[r]: 'data' listeners registered with recorder.on
  sent,           \* every chunk handed to client.sendRealtimeInput, in call order
  earlyRelease,   \* earlyRelease[r]: a handleStop released something while a
                  \* start that was pending at its stop() was still in flight
  hook,           \* the refs and state of useLiveApi
  client,         \* the GenAILiveClient session
  streamer,       \* the AudioStreamer behind audioStreamerRef
  resuming,       \* connect calls awaiting audioStreamer.resume(), oldest first
  continuations,  \* connectWithScreenAudio continuations queued as microtasks
  audioIn,        \* every buffer the client delivered with an 'audio' event
  lastEvent,      \* the last client event handled
  interrupts,     \* 'interrupted' events: [seen, withStreamer]
  settings,       \* the pad fields of the useSettings store
  observed,       \* what the last mute toggle and the last connect call left
  frames,         \* frames[r]: the captureFrame() calls made on recorder r
  codec,          \* a buffer on its way through the frame codec
  tools,          \* the tools list of the useTools store
  lastOp,         \* the last call made on the useTools store
  turns,          \* the turns of the useLogStore store
  toolCalls       \* 'toolcall' events: [received, responses]

recVars == <<mediaDevices, rec, calls, stops, microtasks, stoppedTracks, port,
             produced, dataEmitted, volumeEvents, listeners, sent, earlyRelease>>

coordVars == <<hook, client, streamer, resuming, continuations, audioIn, lastEvent,
               interrupts>>

mixVars == <<settings, observed>>

libVars == <<codec, tools, lastOp, turns, toolCalls>>

vars == <<recVars, coordVars, mixVars, frames, libVars>>

\* ------------------------------------------------------------- frame codec
\* The PCM16 buffers the recording worklet posts (byte sequences).
FrameSet == { <<0, 128>>, <<255, 127, 1, 0>> }

Alphabet ==
  << "A","B","C","D","E","F","G","H","I","J","K","L","M","N","O","P",
     "Q","R","S","T","U","V","W","X","Y","Z","a","b","c","d","e","f",
     "g","h","i","j","k","l","m","n","o","p","q","r","s","t","u","v",
     "w","x","y","z","0","1","2","3","4","5","6","7","8","9","+","/" >>

ByteAt(bytes, i) == IF i <= Len(bytes) THEN bytes[i] ELSE 0

\* One 3-byte group starting at byte i, as btoa encodes it.
Base64Group(bytes, i) ==
  LET v == ByteAt(bytes, i) * 65536 + ByteAt(bytes, i + 1) * 256 + ByteAt(bytes, i + 2)
      c1 == Alphabet[(v \div 262144) + 1]
      c2 == Alphabet[((v \div 4096) % 64) + 1]
      c3 == IF i + 1 <= Len(bytes) THEN Alphabet[((v \div 64) % 64) + 1] ELSE "="
      c4 == IF i + 2 <= Len(bytes) THEN Alphabet[(v % 64) + 1] ELSE "="
  IN  <<c1, c2, c3, c4>>

RECURSIVE Base64From(_, _)
Base64From(bytes, i) ==
  IF i > Len(bytes) THEN <<>>
  ELSE Base64Group(bytes, i) \o Base64From(bytes, i + 3)

\* arrayBufferToBase64: bytes -> binary string -> window.btoa
\* A variant that keeps only the low seven bits of every byte.
arrayBufferToBase64Ascii(buffer) ==
  Base64From([i \in DOMAIN buffer |-> buffer[i] % 128], 1)

\* arrayBufferToBase64 (lines 28-36): one character per byte, then btoa.
arrayBufferToBase64(buffer) == Base64From(buffer, 1)

\* The value of a Base64 character: its place in the alphabet.
Base64Value(c) == (CHOOSE i \in DOMAIN Alphabet : Alphabet[i] = c) - 1

\* The bytes of the 4-character group starting at character i, as atob
\* decodes it: three bytes, or two or one before padding.
Base64Bytes(text, i) ==
  LET pad3 == text[i + 2] = "="
      pad4 == text[i + 3] = "="
      v == Base64Value(text[i]) * 262144 + Base64Value(text[i + 1]) * 4096
           + (IF pad3 THEN 0 ELSE Base64Value(text[i + 2]) * 64)
           + (IF pad4 THEN 0 ELSE Base64Value(text[i + 3]))
  IN  IF pad3 THEN << v \div 65536 >>
      ELSE IF pad4 THEN << v \div 65536, (v \div 256) % 256 >>
      ELSE << v \div 65536, (v \div 256) % 256, v % 256 >>

RECURSIVE BytesFrom(_, _)
BytesFrom(text, i) ==
  IF i > Len(text) THEN <<>>
  ELSE Base64Bytes(text, i) \o BytesFrom(text, i + 4)

\* decodeFrame: the bytes behind the transport string, which must be a whole
\* number of 16-bit samples.
decodeFrame(text) ==
  LET bytes == BytesFrom(text, 1)
  IN  IF Len(bytes) % 2 = 0 THEN bytes ELSE "MalformedFrame"

\* The PCM16 buffers put through the codec: up to MaxSamples samples of two
\* bytes each.
Bytes == {0, 165, 255}

Buffers == UNION { [1..(2 * n) -> Bytes] : n \in 0..MaxSamples }

\* ------------------------------------------------------------- recorder
NewRecorder ==
  [ stream |-> 0, videoTrack |-> 0, captureCanvas |-> FALSE,
    audioContext |-> FALSE, source |-> 0, recording |-> FALSE,
    recordingWorklet |-> 0, vuWorklet |-> 0, starting |-> 0 ]

InFlightPc == {"acquiring", "ctx", "mod1", "mod2"}

InFlight(r) == { k \in DOMAIN calls[r] : calls[r][k].pc \in InFlightPc }

HasVideo(r, s) == calls[r][s].mode = "screen"
HasAudio(r, s) == calls[r][s].audio

\* Executor k of recorder r is awaiting the browser at program point p, and
\* no microtask is left to run before the browser's next event.
AtAwait(r, k, p) ==
  /\ k \in DOMAIN calls[r]
  /\ calls[r][k].pc = p
  /\ microtasks[r] = <<>>

\* resolve(): the reactions registered on promise k become microtasks.
ResolveThens(r, k) == microtasks[r] \o calls[r][k].thens

NoMicrotask == continuations = <<>> /\ \A q \in Rec : microtasks[q] = <<>>

\* this.source?.disconnect(): every edge out of source node sid is removed.
Disconnected(cs, sid) ==
  [ k \in DOMAIN cs |->
      [ cs[k] EXCEPT !.rin = IF sid # 0 /\ @ = sid THEN 0 ELSE @,
                     !.vin = IF sid # 0 /\ @ = sid THEN 0 ELSE @ ] ]

\* The four field assignments of handleStop (lines 230-233).
Released(rc) ==
  [ rc EXCEPT !.stream = 0, !.recordingWorklet = 0, !.vuWorklet = 0, !.videoTrack = 0 ]

HoldsSomething(rc) ==
  rc.stream # 0 \/ rc.recordingWorklet # 0 \/ rc.vuWorklet # 0 \/ rc.videoTrack # 0

\* handleStop (lines 227-234), run for a stop() that was requested while the
\* executors in pend were in flight.
handleStop(r, pend) ==
  /\ calls' = [calls EXCEPT ![r] = Disconnected(@, rec[r].source)]
  /\ stoppedTracks' = [stoppedTracks EXCEPT
                         ![r] = @ \cup (IF rec[r].stream # 0 THEN {rec[r].stream} ELSE {})]
  /\ rec' = [rec EXCEPT ![r] = Released(@)]
  /\ earlyRelease' = [earlyRelease EXCEPT
                        ![r] = @ \/ (pend \cap InFlight(r) # {} /\ HoldsSomething(rec[r]))]

NewCall(mode, pc) ==
  [ mode |-> mode, pc |-> pc, answer |-> "none", audio |-> FALSE, thens |-> <<>>,
    src |-> 0, rin |-> 0, vin |-> 0 ]

\* The synchronous part of start() (mode "mic", lines 63-71) and of
\* startScreenCapture() (mode "screen", lines 85-93): the capability check,
\* then this.starting = new Promise(executor), whose executor runs up to the
\* await of getUserMedia / getDisplayMedia.
startCall(r, mode) ==
  /\ Len(calls[r]) < MaxStarts
  /\ IF mediaDevices
       THEN /\ calls' = [calls EXCEPT ![r] = Append(@, NewCall(mode, "acquiring"))]
            /\ rec' = [rec EXCEPT ![r].starting = Len(calls[r]) + 1]
       ELSE /\ calls' = [calls EXCEPT ![r] = Append(@, NewCall(mode, "unsupported"))]
            /\ UNCHANGED rec
  /\ UNCHANGED <<mediaDevices, stops, microtasks, stoppedTracks, port, produced,
                 dataEmitted, volumeEvents, listeners, sent, earlyRelease>>

start(r) == startCall(r, "mic")

startScreenCapture(r) == startCall(r, "screen")

\* stop() (lines 226-240).
stop(r) ==
  LET k    == rec[r].starting
      pend == InFlight(r)
      j    == Len(stops[r]) + 1
  IN  /\ Len(stops[r]) < MaxStops
      /\ stops' = [stops EXCEPT ![r] = Append(@,
                     [ pend |-> pend,
                       acq |-> { c \in pend : calls[r][c].pc = "acquiring" },
                       nstarts |-> Len(calls[r]) ])]
      /\ IF k # 0
           THEN /\ IF calls[r][k].pc \in {"denied", "done"}
                     THEN /\ microtasks' = [microtasks EXCEPT ![r] = Append(@, j)]
                          /\ UNCHANGED calls
                     ELSE /\ calls' = [calls EXCEPT ![r][k].thens = Append(@, j)]
                          /\ UNCHANGED microtasks
                /\ UNCHANGED <<rec, stoppedTracks, earlyRelease>>
           ELSE /\ handleStop(r, pend)
                /\ UNCHANGED microtasks
      /\ UNCHANGED <<mediaDevices, port, produced, dataEmitted, volumeEvents,
                     listeners, sent>>

\* getUserMedia / getDisplayMedia resolves with a stream (lines 71, 93), the
\* video set-up of lines 117-135, and initializeAudioGraph up to its first
\* await (lines 186-188).
acquired(r, k, audio) ==
  /\ AtAwait(r, k, "acquiring")
  /\ NoMicrotask
  /\ calls[r][k].mode = "mic" => audio
  /\ rec' = [rec EXCEPT ![r].stream = k,
                        ![r].videoTrack = IF HasVideo(r, k) THEN k ELSE @,
                        ![r].captureCanvas = IF HasVideo(r, k) THEN TRUE ELSE @]
  /\ calls' = [calls EXCEPT ![r][k].pc = "ctx", ![r][k].answer = "stream",
                            ![r][k].audio = audio]
  /\ UNCHANGED <<mediaDevices, stops, microtasks, stoppedTracks, port, produced,
                 dataEmitted, volumeEvents, listeners, sent, earlyRelease>>

\* A variant of the catch branch that lets the rejection escape the executor.
deniedUncaught(r, k) ==
  /\ AtAwait(r, k, "acquiring")
  /\ NoMicrotask
  /\ calls' = [calls EXCEPT ![r][k].pc = "failed", ![r][k].answer = "denied"]
  /\ UNCHANGED <<mediaDevices, rec, stops, microtasks, stoppedTracks, port, produced,
                 dataEmitted, volumeEvents, listeners, sent, earlyRelease>>

\* The catch branch (lines 72-76, 111-115): resolve() and return; this.starting
\* keeps the resolved promise.
denied(r, k) ==
  /\ AtAwait(r, k, "acquiring")
  /\ NoMicrotask
  /\ calls' = [calls EXCEPT ![r][k].pc = "denied", ![r][k].answer = "denied",
                            ![r][k].thens = <<>>]
  /\ microtasks' = [microtasks EXCEPT ![r] = ResolveThens(r, k)]
  /\ UNCHANGED <<mediaDevices, rec, stops, stoppedTracks, port, produced,
                 dataEmitted, volumeEvents, listeners, sent, earlyRelease>>

\* A variant that leaves initializeAudioGraph before line 223 when the stream
\* has no audio track.
ctxResolvedAudioOnly(r, k) ==
  LET s == rec[r].stream
  IN  /\ AtAwait(r, k, "ctx")
      /\ NoMicrotask
      /\ IF s = 0
           THEN /\ rec' = [rec EXCEPT ![r].audioContext = TRUE]
                /\ calls' = [calls EXCEPT ![r][k].pc = "failed"]
                /\ UNCHANGED microtasks
           ELSE IF HasAudio(r, s)
           THEN /\ rec' = [rec EXCEPT ![r].audioContext = TRUE, ![r].source = k]
                /\ calls' = [calls EXCEPT ![r][k].pc = "mod1", ![r][k].src = s]
                /\ UNCHANGED microtasks
           ELSE /\ rec' = [rec EXCEPT ![r].audioContext = TRUE, ![r].starting = 0]
                /\ calls' = [calls EXCEPT ![r][k].pc = "done", ![r][k].thens = <<>>]
                /\ microtasks' = [microtasks EXCEPT ![r] = ResolveThens(r, k)]
      /\ UNCHANGED <<mediaDevices, stops, stoppedTracks, port, produced,
                     dataEmitted, volumeEvents, listeners, sent, earlyRelease>>

\* audioContext() resolved (line 188); lines 190-196, or with no audio track
\* line 223 and back in the executor resolve(); this.starting = null.
\* this.stream is read again at line 190: undefined there is a TypeError,
\* which rejects the executor, so resolve() is never called.
ctxResolved(r, k) ==
  LET s == rec[r].stream
  IN  /\ AtAwait(r, k, "ctx")
      /\ NoMicrotask
      /\ IF s = 0
           THEN /\ rec' = [rec EXCEPT ![r].audioContext = TRUE]
                /\ calls' = [calls EXCEPT ![r][k].pc = "failed"]
                /\ UNCHANGED microtasks
           ELSE IF HasAudio(r, s)
           THEN /\ rec' = [rec EXCEPT ![r].audioContext = TRUE, ![r].source = k]
                /\ calls' = [calls EXCEPT ![r][k].pc = "mod1", ![r][k].src = s]
                /\ UNCHANGED microtasks
           ELSE /\ rec' = [rec EXCEPT ![r].audioContext = TRUE,
                                      ![r].recording = TRUE,
                                      ![r].starting = 0]
                /\ calls' = [calls EXCEPT ![r][k].pc = "done", ![r][k].thens = <<>>]
                /\ microtasks' = [microtasks EXCEPT ![r] = ResolveThens(r, k)]
      /\ UNCHANGED <<mediaDevices, stops, stoppedTracks, port, produced,
                     dataEmitted, volumeEvents, listeners, sent, earlyRelease>>

\* audioContext() or audioWorklet.addModule() rejects (lines 188, 196, 212):
\* initializeAudioGraph throws, the executor rejects, resolve() is never called
\* and this.starting is left as it is.
initFailed(r, k) ==
  /\ \E p \in {"ctx", "mod1", "mod2"} : AtAwait(r, k, p)
  /\ NoMicrotask
  /\ calls' = [calls EXCEPT ![r][k].pc = "failed"]
  /\ UNCHANGED <<mediaDevices, rec, stops, microtasks, stoppedTracks, port, produced,
                 dataEmitted, volumeEvents, listeners, sent, earlyRelease>>

\* First addModule resolved: lines 197-212.
mod1Resolved(r, k) ==
  /\ AtAwait(r, k, "mod1")
  /\ NoMicrotask
  /\ rec' = [rec EXCEPT ![r].recordingWorklet = k]
  /\ calls' = [calls EXCEPT ![r][k].pc = "mod2", ![r][k].rin = rec[r].source]
  /\ UNCHANGED <<mediaDevices, stops, microtasks, stoppedTracks, port, produced,
                 dataEmitted, volumeEvents, listeners, sent, earlyRelease>>

\* Second addModule resolved: lines 215-223, then resolve(); this.starting = null.
mod2Resolved(r, k) ==
  /\ AtAwait(r, k, "mod2")
  /\ NoMicrotask
  /\ rec' = [rec EXCEPT ![r].vuWorklet = k, ![r].recording = TRUE, ![r].starting = 0]
  /\ calls' = [calls EXCEPT ![r][k].pc = "done", ![r][k].vin = rec[r].source,
                            ![r][k].thens = <<>>]
  /\ microtasks' = [microtasks EXCEPT ![r] = ResolveThens(r, k)]
  /\ UNCHANGED <<mediaDevices, stops, stoppedTracks, port, produced,
                 dataEmitted, volumeEvents, listeners, sent, earlyRelease>>

\* A handleStop registered with this.starting.then(handleStop) runs (line 236).
runHandleStop(r) ==
  /\ microtasks[r] # <<>>
  /\ handleStop(r, stops[r][Head(microtasks[r])].pend)
  /\ microtasks' = [microtasks EXCEPT ![r] = Tail(@)]
  /\ UNCHANGED <<mediaDevices, stops, port, produced, dataEmitted, volumeEvents,
                 listeners, sent>>

RECURSIVE TotalProduced(_)
TotalProduced(rs) ==
  IF rs = {} THEN 0
  ELSE LET r == CHOOSE q \in rs : TRUE
       IN  Len(produced[r]) + TotalProduced(rs \ {r})

\* The recording worklet of executor k, fed by a connected source node, posts a
\* full buffer to its port.
produceFrame(r, k, f) ==
  /\ k \in DOMAIN calls[r]
  /\ calls[r][k].rin # 0
  /\ NoMicrotask
  /\ TotalProduced(Rec) < MaxFrames
  /\ port' = [port EXCEPT ![r] = Append(@, f)]
  /\ produced' = [produced EXCEPT ![r] = Append(@, f)]
  /\ UNCHANGED <<mediaDevices, rec, calls, stops, microtasks, stoppedTracks,
                 dataEmitted, volumeEvents, listeners, sent, earlyRelease>>

\* The coordinator's onData listener (use-live-api.ts lines 230-232).
onData(r, base64) ==
  [ rec |-> r, mimeType |-> "audio/pcm;rate=16000", data |-> base64 ]

RECURSIVE Repeat(_, _)
Repeat(x, n) == IF n = 0 THEN <<>> ELSE <<x>> \o Repeat(x, n - 1)

\* A variant of the handler that emits only the newest pending buffer.
onmessageLatestOnly(r) ==
  LET arrayBuffer == Head(port[r])
      arrayBufferString == arrayBufferToBase64(arrayBuffer)
  IN  /\ port[r] # <<>>
      /\ NoMicrotask
      /\ port' = [port EXCEPT ![r] = Tail(@)]
      /\ IF Len(port[r]) = 1
           THEN /\ dataEmitted' = [dataEmitted EXCEPT ![r] = Append(@, arrayBufferString)]
                /\ sent' = sent \o Repeat(onData(r, arrayBufferString), listeners[r])
           ELSE UNCHANGED <<dataEmitted, sent>>
      /\ UNCHANGED <<mediaDevices, rec, calls, stops, microtasks, stoppedTracks,
                     produced, volumeEvents, listeners, earlyRelease>>

\* recordingWorklet.port.onmessage (lines 202-208): encode, emit 'data'; the
\* emitter calls every registered listener synchronously.
onmessage(r) ==
  LET arrayBuffer == Head(port[r])
      arrayBufferString == arrayBufferToBase64(arrayBuffer)
  IN  /\ port[r] # <<>>
      /\ NoMicrotask
      /\ port' = [port EXCEPT ![r] = Tail(@)]
      /\ IF arrayBuffer # <<>>
           THEN /\ dataEmitted' = [dataEmitted EXCEPT ![r] = Append(@, arrayBufferString)]
                /\ sent' = sent \o Repeat(onData(r, arrayBufferString), listeners[r])
           ELSE UNCHANGED <<dataEmitted, sent>>
      /\ UNCHANGED <<mediaDevices, rec, calls, stops, microtasks, stoppedTracks,
                     produced, volumeEvents, listeners, earlyRelease>>

RECURSIVE TotalVolumeEvents(_)
TotalVolumeEvents(rs) ==
  IF rs = {} THEN 0
  ELSE LET r == CHOOSE q \in rs : TRUE
       IN  volumeEvents[r] + TotalVolumeEvents(rs \ {r})

\* vuWorklet.port.onmessage (lines 216-218).
vuMessage(r, k) ==
  /\ k \in DOMAIN calls[r]
  /\ calls[r][k].vin # 0
  /\ NoMicrotask
  /\ TotalVolumeEvents(Rec) < MaxVolumeEvents
  /\ volumeEvents' = [volumeEvents EXCEPT ![r] = @ + 1]
  /\ UNCHANGED <<mediaDevices, rec, calls, stops, microtasks, stoppedTracks, port,
                 produced, dataEmitted, listeners, sent, earlyRelease>>

\* A stop() call has completed once its handleStop has run.
StopCompleted(r, j) ==
  /\ \A i \in DOMAIN microtasks[r] : microtasks[r][i] # j
  /\ \A k \in DOMAIN calls[r] :
       \A i \in DOMAIN calls[r][k].thens : calls[r][k].thens[i] # j

\* stop() was the last call made on the recorder and has completed.
Stopped(r) ==
  /\ stops[r] # <<>>
  /\ stops[r][Len(stops[r])].nstarts = Len(calls[r])
  /\ \A j \in DOMAIN stops[r] : StopCompleted(r, j)

NewFrameCall(track, pc, result) ==
  [ track |-> track, pc |-> pc, result |-> result, stopped |-> FALSE ]

\* captureFrame() up to its first await (lines 143-156): null at once without
\* a video track or a raster target, and null from the end of the function
\* when window.ImageCapture is missing; else grabFrame() is awaited.
captureFrame(r, imageCapture) ==
  LET track == rec[r].videoTrack
      call  == IF track = 0 \/ ~rec[r].captureCanvas
                 THEN NewFrameCall(track, "done", "null")
               ELSE IF ~imageCapture
                 THEN NewFrameCall(track, "done", "null")
               ELSE NewFrameCall(track, "grab", "pending")
  IN  /\ NoMicrotask
      /\ Len(frames[r]) < MaxCaptureFrames
      /\ frames' = [frames EXCEPT ![r] = Append(@, [call EXCEPT !.stopped = Stopped(r)])]

\* grabFrame() settled (lines 156-166).  It fulfils only for a live track.
\* Fulfilled: drawImage, then convertToBlob is awaited on an OffscreenCanvas,
\* or toDataURL gives the sample on a canvas element.  Rejected: the catch
\* logs and null is returned (lines 167-170).
grabSettled(r, i, fulfilled, offscreen) ==
  /\ i \in DOMAIN frames[r]
  /\ frames[r][i].pc = "grab"
  /\ NoMicrotask
  /\ fulfilled => frames[r][i].track \notin stoppedTracks[r]
  /\ frames' = [frames EXCEPT ![r][i] =
       IF ~fulfilled THEN [@ EXCEPT !.pc = "done", !.result = "null"]
       ELSE IF offscreen THEN [@ EXCEPT !.pc = "blob"]
       ELSE [@ EXCEPT !.pc = "done", !.result = "sample"]]

\* convertToBlob settled (lines 161-162).  Fulfilled: the promise of
\* blobToBase64 is returned without an await, so captureFrame settles as that
\* promise does.  Rejected: caught, null.
blobSettled(r, i, fulfilled) ==
  /\ i \in DOMAIN frames[r]
  /\ frames[r][i].pc = "blob"
  /\ NoMicrotask
  /\ frames' = [frames EXCEPT ![r][i] =
       IF fulfilled THEN [@ EXCEPT !.pc = "read"]
       ELSE [@ EXCEPT !.pc = "done", !.result = "null"]]

\* The FileReader of blobToBase64 (lines 173-183) fires onloadend, which
\* resolves with the sample, or onerror, which rejects.
readSettled(r, i, loaded) ==
  /\ i \in DOMAIN frames[r]
  /\ frames[r][i].pc = "read"
  /\ NoMicrotask
  /\ frames' = [frames EXCEPT ![r][i] =
       [@ EXCEPT !.pc = "done", !.result = IF loaded THEN "sample" ELSE "rejected"]]

RecInit ==
  /\ mediaDevices \in BOOLEAN
  /\ rec = [r \in Rec |-> NewRecorder]
  /\ calls = [r \in Rec |-> <<>>]
  /\ stops = [r \in Rec |-> <<>>]
  /\ microtasks = [r \in Rec |-> <<>>]
  /\ stoppedTracks = [r \in Rec |-> {}]
  /\ port = [r \in Rec |-> <<>>]
  /\ produced = [r \in Rec |-> <<>>]
  /\ dataEmitted = [r \in Rec |-> <<>>]
  /\ volumeEvents = [r \in Rec |-> 0]
  /\ listeners = [r \in Rec |-> 0]
  /\ sent = <<>>
  /\ earlyRelease = [r \in Rec |-> FALSE]

\* ------------------------------------------------------------- browser events
Acquired ==
  /\ \E r \in Rec, k \in CallId, audio \in BOOLEAN : acquired(r, k, audio)
  /\ UNCHANGED <<coordVars, mixVars, frames, libVars>>

Denied ==
  /\ \E r \in Rec, k \in CallId : denied(r, k)
  /\ UNCHANGED <<coordVars, mixVars, frames, libVars>>

CtxResolved ==
  /\ \E r \in Rec, k \in CallId : ctxResolved(r, k)
  /\ UNCHANGED <<coordVars, mixVars, frames, libVars>>

InitFailed ==
  /\ \E r \in Rec, k \in CallId : initFailed(r, k)
  /\ UNCHANGED <<coordVars, mixVars, frames, libVars>>

Mod1Resolved ==
  /\ \E r \in Rec, k \in CallId : mod1Resolved(r, k)
  /\ UNCHANGED <<coordVars, mixVars, frames, libVars>>

Mod2Resolved ==
  /\ \E r \in Rec, k \in CallId : mod2Resolved(r, k)
  /\ UNCHANGED <<coordVars, mixVars, frames, libVars>>

RunHandleStop ==
  /\ \E r \in Rec : runHandleStop(r)
  /\ UNCHANGED <<coordVars, mixVars, frames, libVars>>

ProduceFrame ==
  /\ \E r \in Rec, k \in CallId, f \in FrameSet : produceFrame(r, k, f)
  /\ UNCHANGED <<coordVars, mixVars, frames, libVars>>

OnMessage ==
  /\ \E r \in Rec : onmessage(r)
  /\ UNCHANGED <<coordVars, mixVars, frames, libVars>>

VuMessage ==
  /\ \E r \in Rec, k \in CallId : vuMessage(r, k)
  /\ UNCHANGED <<coordVars, mixVars, frames, libVars>>

\* ------------------------------------------------------------- playback pipeline
\* AudioStreamer (lib/audio-streamer) as spec.md section 4.4 describes it.
\* Times are in sample periods of the output context; pad volumes are in
\* hundredths of full scale.
PadCap == 50

Max(a, b) == IF a >= b THEN a ELSE b

Min(a, b) == IF a <= b THEN a ELSE b

\* padArg: the volume last handed to startPad / setPadVolume; padWasPlaying:
\* the last startPad found a loop already playing.
\* queue: the scheduled buffers not yet rendered to their end; added: every
\* buffer enqueued; scheduled: for every buffer enqueued, when it arrived and
\* the interval it was scheduled for; scheduledTime: the next scheduled start.
NewStreamer ==
  [ created |-> FALSE, queue |-> <<>>, added |-> <<>>, stopCalls |-> 0,
    cancelled |-> 0, currentTime |-> 0, scheduledTime |-> 0, scheduled |-> <<>>,
    running |-> FALSE, gain |-> 1, padLoops |-> 0, padVolume |-> 0, padArg |-> 0,
    padWasPlaying |-> FALSE ]

\* The playable duration of a PCM16 buffer: one sample period per two bytes.
Duration(data) == Len(data) \div 2

Scheduling(st, data, startTime) ==
  [ data |-> data, at |-> st.currentTime, start |-> startTime,
    end |-> startTime + Duration(data), flushes |-> st.stopCalls ]

\* A variant of enqueue that starts every buffer at once, whatever is scheduled.
addPCM16AtOnce(st, data) ==
  LET s == Scheduling(st, data, st.currentTime)
  IN  [ st EXCEPT !.queue = Append(@, s), !.added = Append(@, data),
                  !.scheduled = Append(@, s), !.scheduledTime = s.end ]

\* A variant of enqueue that always chains to the last scheduled end.
addPCM16Chained(st, data) ==
  LET s == Scheduling(st, data, st.scheduledTime)
  IN  [ st EXCEPT !.queue = Append(@, s), !.added = Append(@, data),
                  !.scheduled = Append(@, s), !.scheduledTime = s.end ]

\* enqueue: the buffer is scheduled to start when the previous one ends, or
\* now if that end has passed.
addPCM16(st, data) ==
  LET s == Scheduling(st, data, Max(st.currentTime, st.scheduledTime))
  IN  [ st EXCEPT !.queue = Append(@, s), !.added = Append(@, data),
                  !.scheduled = Append(@, s), !.scheduledTime = s.end ]

\* A variant of flushAndStop that keeps the scheduling clock.
AudioStreamerStopKeepsClock(st) ==
  [ st EXCEPT !.queue = <<>>, !.stopCalls = @ + 1, !.cancelled = @ + Len(st.queue) ]

\* flushAndStop: every not-yet-rendered scheduled buffer is cancelled and the
\* scheduling clock is reset.
AudioStreamerStop(st) ==
  [ st EXCEPT !.queue = <<>>, !.stopCalls = @ + 1, !.cancelled = @ + Len(st.queue),
              !.scheduledTime = st.currentTime ]

\* A variant of startPad that starts one more loop on every call.
startPadAgain(st, v) ==
  [ st EXCEPT !.padLoops = @ + 1, !.padVolume = Max(0, Min(PadCap, v)),
              !.padArg = v, !.padWasPlaying = st.padLoops > 0 ]

\* startPad(v): one loop plays afterwards, at volume v capped to [0, 0.5].
startPad(st, v) ==
  [ st EXCEPT !.padLoops = 1, !.padVolume = Max(0, Min(PadCap, v)),
              !.padArg = v, !.padWasPlaying = st.padLoops > 0 ]

\* stopPad(): no loop plays afterwards.
stopPad(st) == [ st EXCEPT !.padLoops = 0 ]

\* setPadVolume(v): the pad gain, capped to [0, 0.5].
setPadVolume(st, v) ==
  [ st EXCEPT !.padVolume = Max(0, Min(PadCap, v)), !.padArg = v ]

\* resume() fulfilled: the context runs; queue, gain and pad are as before.
resume(st) == [ st EXCEPT !.running = TRUE ]

\* ------------------------------------------------------------- session client
\* GenAILiveClient (lib/genai-live-client) at its boundary, spec.md section 6.
clientDisconnect(c) == [ c EXCEPT !.status = "disconnected" ]

\* connect(config) opens a session only when none is live; session numbers the
\* sessions opened so far and invoked counts the calls of connect(config).
clientConnect(c) ==
  IF c.status = "disconnected"
    THEN [ c EXCEPT !.status = "connecting", !.session = @ + 1, !.invoked = @ + 1 ]
    ELSE [ c EXCEPT !.invoked = @ + 1 ]

\* ------------------------------------------------------------- coordinator
\* What the first render of useLiveApi reads: useState(true) (line 57) and the
\* defaults of the settings store (state.ts lines 69-70).
DefaultPadVolume == 20

FirstRender ==
  [ isVolumeEnabled |-> TRUE, backgroundPadEnabled |-> FALSE,
    backgroundPadVolume |-> DefaultPadVolume ]

CoordInit ==
  /\ hook = [ audioRecorderRef |-> 0, recorders |-> 0, connected |-> FALSE,
              connects |-> 0, screens |-> 0,
              isVolumeEnabled |-> FirstRender.isVolumeEnabled ]
  /\ client = [ status |-> "disconnected", session |-> 0, invoked |-> 0 ]
  /\ streamer = NewStreamer
  /\ resuming = <<>>
  /\ continuations = <<>>
  /\ audioIn = <<>>
  /\ lastEvent = "none"
  /\ interrupts = [ seen |-> 0, withStreamer |-> 0 ]

\* generateSystemPrompt (state.ts lines 17-37): the template with its three
\* holes, the target language (English when empty), the context line and the
\* language of objective 2 (as given, even when empty).
generateSystemPrompt(language, mediaTitle) ==
  "\nROLE: Simultaneous Audio Interpreter & Scene Narrator\n"
  \o "TARGET LANGUAGE: [" \o (IF language # "" THEN language ELSE "English") \o "]\n"
  \o "INPUT SOURCE: Live Audio Stream (Video/Movie/Speech)\n"
  \o "CONTEXT: "
  \o (IF mediaTitle # ""
        THEN "You are interpreting a video/content titled: \"" \o mediaTitle \o "\""
        ELSE "General Media Stream")
  \o "\n\nOBJECTIVE:\n"
  \o "1. **LISTEN** to the incoming audio stream continuously.\n"
  \o "2. **INTERPRET** the spoken dialogue or narration into [" \o language
  \o "] in real-time.\n"
  \o "3. **SCENE AWARENESS**: You must adapt your voice, tone, pace, and energy to match the *scene* of the input audio exactly.\n"
  \o "   - If the scene is **tense/whispered**: Speak softly, urgently, using a breathy tone.\n"
  \o "   - If the scene is **loud/chaotic/action**: Project authority, speak faster, use a \"shouting\" dynamic if appropriate.\n"
  \o "   - If the scene is **emotional/sad**: Use a trembling, empathetic tone.\n"
  \o "   - If the scene is **formal/speech**: Use a \"Charismatic Orator\" preaching cadence.\n"
  \o "\nINSTRUCTIONS:\n"
  \o "- Do not act as a chatbot. Do not reply to the user.\n"
  \o "- You are the *voice dub* of the content in the target language.\n"
  \o "- Translate meaning-for-meaning, ensuring lip-sync-like pacing where possible.\n"
  \o "- If there is silence in the input, remain silent.\n"

MixInit ==
  /\ settings = [ backgroundPadEnabled |-> FirstRender.backgroundPadEnabled,
                  backgroundPadVolume |-> FirstRender.backgroundPadVolume,
                  language |-> "", mediaTitle |-> "",
                  systemPrompt |-> generateSystemPrompt("", "") ]
  /\ observed = [ gainBeforeMute |-> -1, gainAfterUnmute |-> -1,
                  padEnabledAtCall |-> FALSE, padLoopsAfter |-> -1,
                  resumeRejected |-> FALSE ]

FramesInit == frames = [r \in Rec |-> <<>>]

NewCodec(buffer) ==
  [ buffer |-> buffer, text |-> <<>>, decoded |-> <<>>, phase |-> "raw" ]

\* What the last call on a store was given, and what it found there (the list
\* of the tools store, the state of the settings store).
NoTool == [ name |-> "", isEnabled |-> FALSE ]

NoOp(op, before) ==
  [ op |-> op, oldName |-> "", updatedTool |-> NoTool, before |-> before ]

LibInit ==
  /\ tools = <<>>
  /\ lastOp = NoOp("none", tools)
  /\ turns = <<>>
  /\ toolCalls = [ received |-> <<>>, responses |-> <<>> ]

Init == RecInit /\ CoordInit /\ MixInit /\ FramesInit /\ LibInit /\ codec = NewCodec(<<>>)

\* The effect of lines 62-86: audioContext({id: 'audio-out'}) resolved and the
\* AudioStreamer is created.
\* The callback captured the values of the first render; the context it is
\* given is running or still suspended.
newAudioStreamer(running) ==
  LET st == [ NewStreamer EXCEPT !.created = TRUE, !.running = running,
                                 !.gain = IF FirstRender.isVolumeEnabled THEN 1 ELSE 0 ]
  IN  IF FirstRender.backgroundPadEnabled
        THEN startPad(st, FirstRender.backgroundPadVolume)
        ELSE st

StreamerCreated ==
  /\ ~streamer.created
  /\ NoMicrotask
  /\ \E running \in BOOLEAN : streamer' = newAudioStreamer(running)
  /\ UNCHANGED <<recVars, hook, client, resuming, continuations, audioIn, lastEvent,
                 interrupts, mixVars, frames, libVars>>

\* A variant of the volume effect that only ever mutes.
volumeEffectMuteOnly(st, isVolumeEnabled) ==
  IF st.created
    THEN [ st EXCEPT !.gain = IF isVolumeEnabled THEN @ ELSE 0 ]
    ELSE st

\* The effect of lines 106-110, run when isVolumeEnabled has changed.
volumeEffect(st, isVolumeEnabled) ==
  IF st.created
    THEN [ st EXCEPT !.gain = IF isVolumeEnabled THEN 1 ELSE 0 ]
    ELSE st

\* The effect of lines 89-97, run when backgroundPadEnabled has changed.
padEnabledEffect(st, backgroundPadEnabled, backgroundPadVolume) ==
  IF ~st.created THEN st
  ELSE IF backgroundPadEnabled THEN startPad(st, backgroundPadVolume)
  ELSE stopPad(st)

\* The effect of lines 99-103, run when backgroundPadVolume has changed.
padVolumeEffect(st, backgroundPadEnabled, backgroundPadVolume) ==
  IF st.created /\ backgroundPadEnabled
    THEN setPadVolume(st, backgroundPadVolume)
    ELSE st

\* setIsVolumeEnabled(b) (line 57), the render it causes and its effect.
setIsVolumeEnabled(b) ==
  LET changed == b # hook.isVolumeEnabled
      st      == IF changed THEN volumeEffect(streamer, b) ELSE streamer
  IN  /\ NoMicrotask
      /\ hook' = [hook EXCEPT !.isVolumeEnabled = b]
      /\ streamer' = st
      /\ observed' =
           IF changed /\ streamer.created /\ ~b
             THEN [observed EXCEPT !.gainBeforeMute = streamer.gain,
                                   !.gainAfterUnmute = -1]
           ELSE IF changed /\ streamer.created /\ b /\ observed.gainBeforeMute # -1
             THEN [observed EXCEPT !.gainAfterUnmute = st.gain]
           ELSE observed
      /\ UNCHANGED <<recVars, client, resuming, continuations, audioIn, lastEvent,
                     interrupts, settings, frames, libVars>>

\* setBackgroundPadEnabled(enabled) (state.ts line 84), the render it causes
\* and its effect.
setBackgroundPadEnabled(enabled) ==
  /\ NoMicrotask
  /\ settings' = [settings EXCEPT !.backgroundPadEnabled = enabled]
  /\ streamer' = IF enabled # settings.backgroundPadEnabled
                   THEN padEnabledEffect(streamer, enabled, settings.backgroundPadVolume)
                   ELSE streamer
  /\ UNCHANGED <<recVars, hook, client, resuming, continuations, audioIn, lastEvent,
                 interrupts, observed, frames, libVars>>

\* setBackgroundPadVolume(volume) (state.ts line 85), the render it causes and
\* its effect.
setBackgroundPadVolume(volume) ==
  /\ NoMicrotask
  /\ settings' = [settings EXCEPT !.backgroundPadVolume = volume]
  /\ streamer' = IF volume # settings.backgroundPadVolume
                   THEN padVolumeEffect(streamer, settings.backgroundPadEnabled, volume)
                   ELSE streamer
  /\ UNCHANGED <<recVars, hook, client, resuming, continuations, audioIn, lastEvent,
                 interrupts, observed, frames, libVars>>

PadVolumes == {20, 50, 80}

SetIsVolumeEnabled == \E b \in BOOLEAN : setIsVolumeEnabled(b)

SetBackgroundPadEnabled == \E enabled \in BOOLEAN : setBackgroundPadEnabled(enabled)

SetBackgroundPadVolume == \E volume \in PadVolumes : setBackgroundPadVolume(volume)

\* onOpen (lines 113-115).
onOpen(h) == [ h EXCEPT !.connected = TRUE ]

\* A variant of the 'close' listener that leaves the flag alone.
onCloseNoop(h) == h

\* onClose (lines 117-119).
onClose(h) == [ h EXCEPT !.connected = FALSE ]

\* A variant of the 'interrupted' listener that leaves the streamer alone.
stopAudioStreamerNoop(st) == st

\* stopAudioStreamer (lines 121-125), the 'interrupted' listener.
stopAudioStreamer(st) == IF st.created THEN AudioStreamerStop(st) ELSE st

\* onAudio (lines 127-131), the 'audio' listener.
onAudio(st, data) == IF st.created THEN addPCM16(st, data) ELSE st

OpenEvent ==
  /\ client.status = "connecting"
  /\ NoMicrotask
  /\ client' = [client EXCEPT !.status = "connected"]
  /\ hook' = onOpen(hook)
  /\ lastEvent' = "open"
  /\ UNCHANGED <<recVars, streamer, resuming, continuations, audioIn, interrupts,
                 mixVars, frames, libVars>>

CloseEvent ==
  /\ client.status = "connected"
  /\ NoMicrotask
  /\ client' = [client EXCEPT !.status = "disconnected"]
  /\ hook' = onClose(hook)
  /\ lastEvent' = "close"
  /\ UNCHANGED <<recVars, streamer, resuming, continuations, audioIn, interrupts,
                 mixVars, frames, libVars>>

InterruptedEvent ==
  /\ client.status = "connected"
  /\ NoMicrotask
  /\ interrupts.seen < MaxInterrupts
  /\ streamer' = stopAudioStreamer(streamer)
  /\ interrupts' = [ seen |-> interrupts.seen + 1,
                     withStreamer |-> interrupts.withStreamer
                                        + (IF streamer.created THEN 1 ELSE 0) ]
  /\ lastEvent' = "interrupted"
  /\ UNCHANGED <<recVars, hook, client, resuming, continuations, audioIn,
                 mixVars, frames, libVars>>

AudioEvent ==
  \E data \in FrameSet :
    /\ client.status = "connected"
    /\ NoMicrotask
    /\ Len(audioIn) < MaxAudio
    /\ audioIn' = Append(audioIn, data)
    /\ streamer' = onAudio(streamer, data)
    /\ lastEvent' = "audio"
    /\ UNCHANGED <<recVars, hook, client, resuming, continuations, interrupts,
                   mixVars, frames, libVars>>

\* The running output context renders one sample period: its clock advances
\* and the buffers that have reached their end leave the queue.
Rendered ==
  /\ streamer.created
  /\ streamer.running
  /\ streamer.currentTime < MaxTime
  /\ NoMicrotask
  /\ streamer' = [streamer EXCEPT
                    !.currentTime = @ + 1,
                    !.queue = SelectSeq(@, LAMBDA s : s.end > streamer.currentTime + 1)]
  /\ UNCHANGED <<recVars, hook, client, resuming, continuations, audioIn, lastEvent,
                 interrupts, mixVars, frames, libVars>>

\* connectWithScreenAudio lines 223-227: a new AudioRecorder replaces the ref
\* and its startScreenCapture() is called; the rest of the function runs as a
\* microtask, since startScreenCapture() does not await its acquisition.
beginScreenCapture ==
  LET r == hook.recorders + 1
  IN  /\ hook' = [hook EXCEPT !.audioRecorderRef = r, !.recorders = r,
                               !.screens = IF resuming = <<>> THEN @ + 1 ELSE @]
      /\ startScreenCapture(r)
      /\ continuations' = Append(continuations, r)

\* A call awaiting resume(), with the pad settings its callback closed over
\* (the dependencies of lines 206 and 237).
Awaiting(kind) ==
  [ kind |-> kind, backgroundPadEnabled |-> settings.backgroundPadEnabled,
    backgroundPadVolume |-> settings.backgroundPadVolume ]

\* A variant of connect() without the client.disconnect() of line 191.
connectNoDisconnect ==
  /\ NoMicrotask
  /\ hook.connects < MaxConnects
  /\ IF streamer.created
       THEN /\ UNCHANGED client
            /\ resuming' = Append(resuming, Awaiting("connect"))
       ELSE /\ client' = clientConnect(client)
            /\ UNCHANGED resuming
  /\ hook' = [hook EXCEPT !.connects = @ + 1]
  /\ UNCHANGED <<recVars, streamer, continuations, audioIn, lastEvent, interrupts,
                 mixVars, frames, libVars>>

\* connect() (lines 187-206) up to the await of resume(), or to its end when
\* there is no streamer yet.
connect ==
  /\ NoMicrotask
  /\ hook.connects < MaxConnects
  /\ IF streamer.created
       THEN /\ client' = clientDisconnect(client)
            /\ resuming' = Append(resuming, Awaiting("connect"))
       ELSE /\ client' = clientConnect(clientDisconnect(client))
            /\ UNCHANGED resuming
  /\ hook' = [hook EXCEPT !.connects = @ + 1]
  /\ UNCHANGED <<recVars, streamer, continuations, audioIn, lastEvent, interrupts,
                 mixVars, frames, libVars>>

\* connectWithScreenAudio() (lines 209-227) up to the await of resume(), or to
\* the await of startScreenCapture() when there is no streamer yet.
connectWithScreenAudio ==
  /\ NoMicrotask
  /\ hook.screens < MaxRecorders
  /\ client' = clientDisconnect(client)
  /\ IF streamer.created
       THEN /\ resuming' = Append(resuming, Awaiting("screen"))
            /\ hook' = [hook EXCEPT !.screens = @ + 1]
            /\ UNCHANGED <<recVars, continuations>>
       ELSE /\ beginScreenCapture
            /\ UNCHANGED resuming
  /\ UNCHANGED <<streamer, audioIn, lastEvent, interrupts, mixVars, frames, libVars>>

\* Lines 196-199 and 215-218 once resume() has settled: fulfilled, the pad is
\* started if the callback saw it enabled; rejected, the catch skips that.
afterResume(st, call, fulfilled) ==
  IF ~fulfilled THEN st
  ELSE IF call.backgroundPadEnabled
    THEN startPad(resume(st), call.backgroundPadVolume)
    ELSE resume(st)

\* audioStreamer.resume() settled for the oldest waiting call; a rejection is
\* caught (lines 200-202, 219).  connect() goes on to client.connect(config),
\* connectWithScreenAudio() to lines 223-227.
ResumeSettled ==
  \E fulfilled \in BOOLEAN :
    LET call == Head(resuming)
        st   == afterResume(streamer, call, fulfilled)
    IN  /\ resuming # <<>>
        /\ NoMicrotask
        /\ resuming' = Tail(resuming)
        /\ streamer' = st
        /\ observed' = IF ~fulfilled
                         THEN [observed EXCEPT !.resumeRejected = TRUE]
                         ELSE IF call.backgroundPadEnabled = settings.backgroundPadEnabled
                           THEN [observed EXCEPT
                                   !.padEnabledAtCall = call.backgroundPadEnabled,
                                   !.padLoopsAfter = st.padLoops]
                           ELSE observed
        /\ IF call.kind = "connect"
             THEN /\ client' = clientConnect(client)
                  /\ UNCHANGED <<recVars, hook, continuations>>
             ELSE /\ beginScreenCapture
                  /\ UNCHANGED client
        /\ UNCHANGED <<audioIn, lastEvent, interrupts, settings, frames, libVars>>

\* connectWithScreenAudio lines 229-236: recorder.on('data', onData), then
\* client.connect(config).
screenContinuation ==
  /\ continuations # <<>>
  /\ listeners' = [listeners EXCEPT ![Head(continuations)] = @ + 1]
  /\ continuations' = Tail(continuations)
  /\ client' = clientConnect(client)
  /\ UNCHANGED <<mediaDevices, rec, calls, stops, microtasks, stoppedTracks, port,
                 produced, dataEmitted, volumeEvents, sent, earlyRelease>>
  /\ UNCHANGED <<hook, streamer, resuming, audioIn, lastEvent, interrupts,
                 mixVars, frames, libVars>>

\* A variant of disconnect() that also flushes the playback pipeline.
disconnectAndFlush ==
  /\ NoMicrotask
  /\ client' = clientDisconnect(client)
  /\ IF hook.audioRecorderRef # 0
       THEN stop(hook.audioRecorderRef)
       ELSE UNCHANGED recVars
  /\ hook' = [hook EXCEPT !.audioRecorderRef = 0, !.connected = FALSE]
  /\ streamer' = stopPad(stopAudioStreamer(streamer))
  /\ UNCHANGED <<resuming, continuations, audioIn, lastEvent, interrupts,
                 mixVars, frames, libVars>>

\* disconnect() (lines 239-246).
disconnect ==
  /\ NoMicrotask
  /\ client' = clientDisconnect(client)
  /\ IF hook.audioRecorderRef # 0
       THEN stop(hook.audioRecorderRef)
       ELSE UNCHANGED recVars
  /\ hook' = [hook EXCEPT !.audioRecorderRef = 0, !.connected = FALSE]
  /\ UNCHANGED <<streamer, resuming, continuations, audioIn, lastEvent, interrupts,
                 mixVars, frames, libVars>>

\* ------------------------------------------------------------- tools store
\* useTools (state.ts lines 114-176).  A tool is its name and its isEnabled
\* flag; the names a caller can pass are those addTool generates first and one
\* the user typed.
ToolNames == { "new_function", "new_function_1", "new_function_2", "lookup" }

Tools == [ name : ToolNames, isEnabled : BOOLEAN ]

hasName(ts, name) == \E i \in DOMAIN ts : ts[i].name = name

\* toggleTool (lines 128-133).
toggleTool(ts, toolName) ==
  [ i \in DOMAIN ts |->
      IF ts[i].name = toolName THEN [ ts[i] EXCEPT !.isEnabled = ~@ ] ELSE ts[i] ]

\* The while loop of lines 136-140, entered with a candidate name and the
\* counter for the next one.
RECURSIVE newToolNameFrom(_, _, _)
newToolNameFrom(ts, newToolName, counter) ==
  IF hasName(ts, newToolName)
    THEN newToolNameFrom(ts, "new_function_" \o ToString(counter), counter + 1)
    ELSE newToolName

\* addTool (lines 134-156).
addTool(ts) ==
  Append(ts, [ name |-> newToolNameFrom(ts, "new_function", 1), isEnabled |-> TRUE ])

\* removeTool (lines 157-160).
removeTool(ts, toolName) == SelectSeq(ts, LAMBDA tool : tool.name # toolName)

\* A variant of updateTool without the check of lines 163-169.
updateToolUnchecked(ts, oldName, updatedTool) ==
  [ i \in DOMAIN ts |-> IF ts[i].name = oldName THEN updatedTool ELSE ts[i] ]

\* A variant of updateTool that moves the updated tool to the end of the list.
updateToolMovesToEnd(ts, oldName, updatedTool) ==
  IF oldName # updatedTool.name /\ hasName(ts, updatedTool.name)
    THEN ts
    ELSE IF hasName(ts, oldName)
      THEN Append(removeTool(ts, oldName), updatedTool)
      ELSE ts

\* updateTool (lines 161-175).
updateTool(ts, oldName, updatedTool) ==
  IF oldName # updatedTool.name /\ hasName(ts, updatedTool.name)
    THEN ts
    ELSE [ i \in DOMAIN ts |-> IF ts[i].name = oldName THEN updatedTool ELSE ts[i] ]

libOther == <<recVars, coordVars, mixVars, frames, codec, turns, toolCalls>>

ToggleTool ==
  \E toolName \in ToolNames :
    /\ tools' = toggleTool(tools, toolName)
    /\ lastOp' = NoOp("toggleTool", tools)
    /\ UNCHANGED libOther

AddTool ==
  /\ Len(tools) < MaxTools
  /\ tools' = addTool(tools)
  /\ lastOp' = NoOp("addTool", tools)
  /\ UNCHANGED libOther

RemoveTool ==
  \E toolName \in ToolNames :
    /\ tools' = removeTool(tools, toolName)
    /\ lastOp' = NoOp("removeTool", tools)
    /\ UNCHANGED libOther

UpdateTool ==
  \E oldName \in ToolNames, updatedTool \in Tools :
    /\ tools' = updateTool(tools, oldName, updatedTool)
    /\ lastOp' = [ op |-> "updateTool", oldName |-> oldName,
                   updatedTool |-> updatedTool, before |-> tools ]
    /\ UNCHANGED libOther

ToolsNext ==
  \/ ToggleTool
  \/ AddTool
  \/ RemoveTool
  \/ UpdateTool

ToolsSpec == Init /\ [][ToolsNext]_vars

\* ------------------------------------------------------------- prompt settings
\* The languages of the sidebar, the titles the embed components set (an
\* oEmbed title or one of their fallbacks) and the texts a user types into the
\* prompt box.
Languages == { "", "English", "French", "Tagalog" }

MediaTitles == { "", "Dune", "Web Content" }

Prompts == { "", "Answer briefly." }

\* setSystemPrompt (state.ts line 71).
setSystemPrompt(state, prompt) == [ state EXCEPT !.systemPrompt = prompt ]

\* A variant of setLanguage that generates the prompt without the media title.
setLanguageDropsTitle(state, language) ==
  [ state EXCEPT !.language = language,
                 !.systemPrompt = generateSystemPrompt(language, "") ]

\* setLanguage (lines 75-78).
setLanguage(state, language) ==
  [ state EXCEPT !.language = language,
                 !.systemPrompt = generateSystemPrompt(language, state.mediaTitle) ]

\* setMediaTitle (lines 80-83).
setMediaTitle(state, title) ==
  [ state EXCEPT !.mediaTitle = title,
                 !.systemPrompt = generateSystemPrompt(state.language, title) ]

promptOther == <<recVars, coordVars, observed, frames, codec, tools, turns, toolCalls>>

SetSystemPrompt ==
  \E prompt \in Prompts :
    /\ settings' = setSystemPrompt(settings, prompt)
    /\ lastOp' = NoOp("setSystemPrompt", settings)
    /\ UNCHANGED promptOther

SetLanguage ==
  \E language \in Languages :
    /\ settings' = setLanguage(settings, language)
    /\ lastOp' = NoOp("setLanguage", settings)
    /\ UNCHANGED promptOther

SetMediaTitle ==
  \E title \in MediaTitles :
    /\ settings' = setMediaTitle(settings, title)
    /\ lastOp' = NoOp("setMediaTitle", settings)
    /\ UNCHANGED promptOther

PromptNext ==
  \/ SetSystemPrompt
  \/ SetLanguage
  \/ SetMediaTitle

PromptSpec == Init /\ [][PromptNext]_vars

\* ------------------------------------------------------------- tool calls
\* The function calls a 'toolcall' event can carry: an id and a name each (the
\* arguments only reach the text of the trigger turn).
FunctionCalls ==
  { [ id |-> "call-1", name |-> "play" ], [ id |-> "call-2", name |-> "pause" ],
    [ id |-> "call-3", name |-> "play" ] }

ToolCalls ==
  UNION { [1..n -> FunctionCalls] : n \in 0..MaxFunctionCalls }

\* useLogStore.addTurn (state.ts lines 208-211): the turn goes to the end of the
\* log (its timestamp is not modelled).
addTurn(log, turn) == Append(log, turn)

\* The turn of lines 143-150 for one function call.
triggerTurn(fc) ==
  [ role |-> "system", kind |-> "trigger", name |-> fc.name, isFinal |-> TRUE ]

\* The entry of lines 152-156 for one function call.
functionResponse(fc) ==
  [ id |-> fc.id, name |-> fc.name, response |-> [ result |-> "ok" ] ]

\* The turn of lines 160-169, whose text is the list of responses.
responseTurn(functionResponses) ==
  [ role |-> "system", kind |-> "response", functionResponses |-> functionResponses,
    isFinal |-> TRUE ]

\* The loop of lines 142-157 from its i-th iteration on: the log after it.
RECURSIVE triggerTurnsFrom(_, _, _)
triggerTurnsFrom(log, functionCalls, i) ==
  IF i > Len(functionCalls)
    THEN log
    ELSE triggerTurnsFrom(addTurn(log, triggerTurn(functionCalls[i])), functionCalls, i + 1)

\* A variant of onToolCall that writes the summary turn for every event.
onToolCallAlwaysSummarises(functionCalls) ==
  LET functionResponses == [ i \in 1..Len(functionCalls) |->
                               functionResponse(functionCalls[i]) ]
  IN  /\ turns' = addTurn(triggerTurnsFrom(turns, functionCalls, 1),
                          responseTurn(functionResponses))
      /\ toolCalls' = [toolCalls EXCEPT
                         !.received = Append(@, functionCalls),
                         !.responses = Append(@, [ functionResponses |-> functionResponses ])]

\* onToolCall (lines 139-173): one trigger turn and one response entry per
\* function call, the summary turn if there is any response, then
\* client.sendToolResponse once.
onToolCall(functionCalls) ==
  LET functionResponses == [ i \in 1..Len(functionCalls) |->
                               functionResponse(functionCalls[i]) ]
      triggered == triggerTurnsFrom(turns, functionCalls, 1)
  IN  /\ turns' = IF Len(functionResponses) > 0
                    THEN addTurn(triggered, responseTurn(functionResponses))
                    ELSE triggered
      /\ toolCalls' = [toolCalls EXCEPT
                         !.received = Append(@, functionCalls),
                         !.responses = Append(@, [ functionResponses |-> functionResponses ])]

\* The client emits 'toolcall' (line 175) during a session.
ToolCallEvent ==
  \E functionCalls \in ToolCalls :
    /\ client.status = "connected"
    /\ NoMicrotask
    /\ Len(toolCalls.received) < MaxToolCalls
    /\ onToolCall(functionCalls)
    /\ lastEvent' = "toolcall"
    /\ UNCHANGED <<recVars, hook, client, streamer, resuming, continuations, audioIn,
                   interrupts, mixVars, frames, codec, tools, lastOp>>

Next ==
  \/ StreamerCreated
  \/ SetIsVolumeEnabled
  \/ SetBackgroundPadEnabled
  \/ SetBackgroundPadVolume
  \/ connect
  \/ connectWithScreenAudio
  \/ ResumeSettled
  \/ screenContinuation
  \/ disconnect
  \/ OpenEvent
  \/ CloseEvent
  \/ InterruptedEvent
  \/ AudioEvent
  \/ ToolCallEvent
  \/ ToggleTool
  \/ AddTool
  \/ RemoveTool
  \/ UpdateTool
  \/ SetSystemPrompt
  \/ SetLanguage
  \/ SetMediaTitle
  \/ Rendered
  \/ Acquired
  \/ Denied
  \/ CtxResolved
  \/ InitFailed
  \/ Mod1Resolved
  \/ Mod2Resolved
  \/ RunHandleStop
  \/ ProduceFrame
  \/ OnMessage
  \/ VuMessage

Spec == Init /\ [][Next]_vars

\* The recorders never read or write the playback side, and the playback side
\* never reads the recorders: the two halves of the coordinator are checked
\* separately, each with every action that can change what it reads.
CaptureNext ==
  \/ StreamerCreated
  \/ connect
  \/ connectWithScreenAudio
  \/ ResumeSettled
  \/ screenContinuation
  \/ disconnect
  \/ Acquired
  \/ Denied
  \/ CtxResolved
  \/ InitFailed
  \/ Mod1Resolved
  \/ Mod2Resolved
  \/ RunHandleStop
  \/ ProduceFrame
  \/ OnMessage
  \/ VuMessage

CaptureSpec == Init /\ [][CaptureNext]_vars

PlaybackNext ==
  \/ StreamerCreated
  \/ connect
  \/ ResumeSettled
  \/ disconnect
  \/ OpenEvent
  \/ CloseEvent
  \/ InterruptedEvent
  \/ AudioEvent
  \/ Rendered

PlaybackSpec == Init /\ [][PlaybackNext]_vars

\* The mix bus: the settings a user can change at any time, the creation of
\* the streamer, and the coordinator's calls, which restart the pad and tear
\* the capture down.  The captures stay at their permission prompt.
MixNext ==
  \/ StreamerCreated
  \/ SetIsVolumeEnabled
  \/ SetBackgroundPadEnabled
  \/ SetBackgroundPadVolume
  \/ connect
  \/ connectWithScreenAudio
  \/ ResumeSettled
  \/ screenContinuation
  \/ disconnect

MixSpec == Init /\ [][MixNext]_vars

\* The session: the coordinator's calls and the events of the client that
\* drive the connected flag and the tool calls.  The captures stay at their
\* permission prompt.
SessionNext ==
  \/ StreamerCreated
  \/ connect
  \/ connectWithScreenAudio
  \/ ResumeSettled
  \/ screenContinuation
  \/ disconnect
  \/ OpenEvent
  \/ CloseEvent
  \/ ToolCallEvent

SessionSpec == Init /\ [][SessionNext]_vars

\* ------------------------------------------------------------- one recorder
\* A caller that drives recorder 1 through its public methods in any order.
CallStart == start(1) /\ UNCHANGED <<coordVars, mixVars, frames, libVars>>

CallStartScreenCapture ==
  startScreenCapture(1) /\ UNCHANGED <<coordVars, mixVars, frames, libVars>>

CallStop == stop(1) /\ UNCHANGED <<coordVars, mixVars, frames, libVars>>

RecNext ==
  \/ CallStart
  \/ CallStartScreenCapture
  \/ CallStop
  \/ Acquired
  \/ Denied
  \/ CtxResolved
  \/ InitFailed
  \/ Mod1Resolved
  \/ Mod2Resolved
  \/ RunHandleStop
  \/ ProduceFrame
  \/ OnMessage
  \/ VuMessage

RecSpec == Init /\ [][RecNext]_vars

\* ------------------------------------------------------------- frame sampling
FrameId == 1..MaxCaptureFrames

CallCaptureFrame ==
  /\ \E imageCapture \in BOOLEAN : captureFrame(1, imageCapture)
  /\ UNCHANGED <<recVars, coordVars, mixVars, libVars>>

GrabSettled ==
  /\ \E i \in FrameId, fulfilled \in BOOLEAN, offscreen \in BOOLEAN :
       grabSettled(1, i, fulfilled, offscreen)
  /\ UNCHANGED <<recVars, coordVars, mixVars, libVars>>

BlobSettled ==
  /\ \E i \in FrameId, fulfilled \in BOOLEAN : blobSettled(1, i, fulfilled)
  /\ UNCHANGED <<recVars, coordVars, mixVars, libVars>>

ReadSettled ==
  /\ \E i \in FrameId, loaded \in BOOLEAN : readSettled(1, i, loaded)
  /\ UNCHANGED <<recVars, coordVars, mixVars, libVars>>

\* A caller that samples frames from recorder 1 while driving it.  captureFrame
\* reads videoTrack and the raster target only, which no worklet message
\* writes, so the worklets are left out.
SamplingNext ==
  \/ CallStart
  \/ CallStartScreenCapture
  \/ CallStop
  \/ CallCaptureFrame
  \/ Acquired
  \/ Denied
  \/ CtxResolved
  \/ InitFailed
  \/ Mod1Resolved
  \/ Mod2Resolved
  \/ RunHandleStop
  \/ GrabSettled
  \/ BlobSettled
  \/ ReadSettled

SamplingSpec == Init /\ [][SamplingNext]_vars

\* ------------------------------------------------------------- recorder claims
\* Streams the recorder was handed by getUserMedia / getDisplayMedia.
AcquiredStreams(r) == { k \in DOMAIN calls[r] : calls[r][k].answer = "stream" }

\* Nothing of recorder r is left to run: no executor awaits and no reaction is queued.
Quiescent(r) == InFlight(r) = {} /\ microtasks[r] = <<>>

FullyReleased(r) ==
  /\ AcquiredStreams(r) \subseteq stoppedTracks[r]
  /\ rec[r].stream = 0
  /\ rec[r].videoTrack = 0
  /\ rec[r].recordingWorklet = 0
  /\ rec[r].vuWorklet = 0

\* start() or startScreenCapture() once, then stop() while the acquisition was
\* still awaited, and no other call.
StopRightAfterStart(r) ==
  /\ Len(calls[r]) = 1
  /\ Len(stops[r]) = 1
  /\ stops[r][1].acq = {1}

\* C1: stop() called right after start()/startScreenCapture(), before the device
\* acquisition completed: once the acquisition has completed and the recorder
\* has nothing left to run, every track of the acquired stream is stopped and
\* stream, videoTrack, recordingWorklet and vuWorklet are cleared.
C1_StopAfterStartFullyReleased ==
  \A r \in Rec :
    (StopRightAfterStart(r) /\ calls[r][1].pc # "acquiring" /\ Quiescent(r))
      => FullyReleased(r)

\* No start was called after the last stop().
StopIsLastCall(r) ==
  /\ stops[r] # <<>>
  /\ stops[r][Len(stops[r])].nstarts = Len(calls[r])

\* C2: after stop(), every track of every stream the recorder acquired is
\* stopped once the pending start has completed or failed, also when the
\* stream was acquired and initializeAudioGraph then threw.
C2_StopReleasesEveryAcquiredStream ==
  \A r \in Rec :
    (StopIsLastCall(r) /\ Quiescent(r)) => AcquiredStreams(r) \subseteq stoppedTracks[r]

\* C3: a stop() requested while a start is pending stops no track and clears no
\* field until that start has settled.
C3_StopNeverReleasesEarly == \A r \in Rec : ~earlyRelease[r]

\* C4: start and stop calls on one recorder serialize through `starting`:
\* starting stays set while an acquisition is in flight, no acquired stream is
\* replaced in `stream` with its tracks still running, and after a final stop
\* every acquired stream is released.
C4_StartStopSerialize ==
  \A r \in Rec :
    /\ InFlight(r) # {} => rec[r].starting # 0
    /\ \A s \in AcquiredStreams(r) : s # rec[r].stream => s \in stoppedTracks[r]
    /\ (StopIsLastCall(r) /\ Quiescent(r)) => AcquiredStreams(r) \subseteq stoppedTracks[r]

\* Every start of recorder r so far was refused (denied, or no capture API).
OnlyRefused(r) ==
  /\ calls[r] # <<>>
  /\ \A k \in DOMAIN calls[r] :
       calls[r][k].pc = "unsupported" \/ calls[r][k].answer = "denied"

NoCapture(r) ==
  /\ rec[r].stream = 0
  /\ ~rec[r].recording
  /\ ~rec[r].audioContext
  /\ rec[r].source = 0
  /\ rec[r].recordingWorklet = 0
  /\ rec[r].vuWorklet = 0

\* C6: a denied or unavailable microphone / display capture settles without
\* throwing, leaves the recorder in the no-capture state, and no 'data' or
\* 'volume' event is emitted afterwards.
C6_RefusedStartDegrades ==
  \A r \in Rec :
    /\ \A k \in DOMAIN calls[r] :
         calls[r][k].answer = "denied" => calls[r][k].pc = "denied"
    /\ OnlyRefused(r) =>
         /\ NoCapture(r)
         /\ dataEmitted[r] = <<>>
         /\ port[r] = <<>>
         /\ volumeEvents[r] = 0

\* Both a microphone start and a display capture were denied, and stop() ran.
C6_Witness ==
  /\ Len(calls[1]) = 2
  /\ calls[1][1].mode = "mic" /\ calls[1][1].pc = "denied"
  /\ calls[1][2].mode = "screen" /\ calls[1][2].pc = "denied"
  /\ stops[1] # <<>>
  /\ Quiescent(1)

\* ------------------------------------------------------------- coordinator claims
\* Recorders that hold a stream whose tracks are still running.
ActiveCaptures ==
  { r \in Rec : rec[r].stream # 0 /\ rec[r].stream \notin stoppedTracks[r] }

\* C5: at most one capture session is active at any time; a recorder left from
\* an earlier connectWithScreenAudio() is stopped before a new capture starts.
C5_AtMostOneActiveCapture == Cardinality(ActiveCaptures) <= 1

SentOf(r) == SelectSeq(sent, LAMBDA c : c.rec = r)

\* The frames of recorder r whose worklet message has been handled.
Delivered(r) == SubSeq(produced[r], 1, Len(produced[r]) - Len(port[r]))

\* C7: the chunks handed to client.sendRealtimeInput for a recorder are its
\* worklet's frames, base64-encoded, one 'audio/pcm;rate=16000' chunk per
\* frame, in production order, none duplicated, reordered or skipped.
C7_FramesSentInProductionOrder ==
  \A r \in Rec :
    SentOf(r) = [ i \in 1..Len(Delivered(r)) |->
                    [ rec |-> r, mimeType |-> "audio/pcm;rate=16000",
                      data |-> arrayBufferToBase64(Delivered(r)[i]) ] ]

\* Two different frames of one recorder were sent.
C7_Witness ==
  /\ Len(sent) = 2
  /\ sent[1].rec = sent[2].rec
  /\ sent[1].data # sent[2].data
  /\ produced[sent[1].rec][1] # produced[sent[1].rec][2]

\* C8: every 'interrupted' signal makes the coordinator call AudioStreamer.stop()
\* in the same turn, so nothing enqueued before it is still scheduled after it.
C8_InterruptedFlushesPlayback ==
  /\ streamer.stopCalls = interrupts.withStreamer
  /\ lastEvent = "interrupted" => streamer.queue = <<>>

\* An interruption cancelled a buffer that was scheduled.
C8_Witness ==
  /\ lastEvent = "interrupted"
  /\ streamer.cancelled >= 1
  /\ streamer.added # <<>>

\* C9: when the session signals 'close', the coordinator stops the playback
\* pipeline's active output.
C9_CloseStopsPlayback == lastEvent = "close" => streamer.queue = <<>>

\* C10: every buffer the client delivers with an 'audio' event is passed to
\* addPCM16, in arrival order, none dropped, also while the streamer is still
\* being created.
C10_EveryAudioBufferForwarded == streamer.added = audioIn

\* ------------------------------------------------------------- mix bus claims
\* C11: a disconnect() step calls stop() on the recorder the coordinator holds,
\* if any, and drops the reference, and leaves the whole playback pipeline as
\* it was: no AudioStreamer.stop(), the same master gain, the same pad.
C11_DisconnectLeavesPlayback ==
  [][ disconnect =>
        /\ streamer' = streamer
        /\ hook'.audioRecorderRef = 0
        /\ \A r \in Rec :
             Len(stops'[r]) = Len(stops[r]) + (IF hook.audioRecorderRef = r THEN 1 ELSE 0)
    ]_vars

\* A recorder was stopped by disconnect() while the pad was playing.
C11_Witness ==
  /\ hook.audioRecorderRef = 0
  /\ stops[1] # <<>>
  /\ streamer.created
  /\ streamer.padLoops = 1

\* C12: when the master is muted and then unmuted, the gain after the unmute
\* is the gain there was before the mute.
C12_MuteThenUnmuteRestoresGain ==
  observed.gainAfterUnmute # -1 => observed.gainAfterUnmute = observed.gainBeforeMute

C12_Witness == observed.gainBeforeMute # -1 /\ observed.gainAfterUnmute # -1

\* C13: every volume handed to startPad / setPadVolume is within [0, 0.5].
C13_PadVolumeWithinBounds == 0 <= streamer.padArg /\ streamer.padArg <= PadCap

\* C14: at most one pad loop plays at any time.
C14_AtMostOnePadLoop == streamer.padLoops <= 1

\* startPad was called while a loop was already playing.
C14_Witness == streamer.padWasPlaying /\ streamer.padLoops = 1

\* C15: after a connect call has resumed the playback context, with the pad
\* setting the same as when the call was made, the pad plays exactly if it is
\* enabled.
C15_PadRestoredOnConnect ==
  observed.padLoopsAfter # -1 =>
    (observed.padLoopsAfter >= 1 <=> observed.padEnabledAtCall)

\* ------------------------------------------------------------- sampling claims
\* C16: captureFrame() never rejects; it gives null when no video track is
\* held at the call, and null when it is called after a stop() that was the
\* last call on the recorder and has completed.
C16_CaptureFrameNeverRaises ==
  \A r \in Rec : \A i \in DOMAIN frames[r] :
    /\ frames[r][i].result # "rejected"
    /\ frames[r][i].track = 0 => frames[r][i].result = "null"
    /\ frames[r][i].stopped => frames[r][i].result \in {"pending", "null"}

\* The recorder's acquired streams are all display streams without audio.
OnlyNoAudioScreen(r) ==
  /\ AcquiredStreams(r) # {}
  /\ \A k \in AcquiredStreams(r) : calls[r][k].mode = "screen" /\ ~calls[r][k].audio

\* C17: a display capture without an audio track sets up the video track and
\* the raster target, and once startScreenCapture has completed recording is
\* true; no worklet is created and no 'data' or 'volume' event is emitted.
C17_NoAudioScreenCaptureNonFatal ==
  \A r \in Rec :
    OnlyNoAudioScreen(r) =>
      /\ rec[r].source = 0 /\ rec[r].recordingWorklet = 0 /\ rec[r].vuWorklet = 0
      /\ produced[r] = <<>> /\ dataEmitted[r] = <<>> /\ volumeEvents[r] = 0
      /\ \A k \in AcquiredStreams(r) : calls[r][k].pc \notin {"mod1", "mod2"}
      /\ stops[r] = <<>> => rec[r].videoTrack # 0 /\ rec[r].captureCanvas
      /\ (\E k \in AcquiredStreams(r) : calls[r][k].pc = "done") => rec[r].recording

\* A display capture without audio has completed and nothing stopped it.
C17_Witness ==
  /\ OnlyNoAudioScreen(1)
  /\ stops[1] = <<>>
  /\ \E k \in AcquiredStreams(1) : calls[1][k].pc = "done"
  /\ rec[1].starting = 0
  /\ rec[1].recording /\ rec[1].videoTrack # 0

\* ------------------------------------------------------------- scheduling claims
\* Buffer k was enqueued in the same run of the pipeline as buffer k - 1, with
\* no flush between them.
SameRun(k) ==
  /\ k - 1 \in DOMAIN streamer.scheduled
  /\ streamer.scheduled[k].flushes = streamer.scheduled[k - 1].flushes

\* Buffer k was enqueued before its deadline, the scheduled end of buffer k - 1.
OnTime(k) == SameRun(k) /\ streamer.scheduled[k].at <= streamer.scheduled[k - 1].end

\* C18: buffers enqueued in order, each before its deadline, are scheduled back
\* to back: buffer k starts where buffer k - 1 ends, and when buffers i..k all
\* have duration d, buffer k starts at the start of buffer i plus (k - i) * d.
C18_GaplessScheduling ==
  \A k \in DOMAIN streamer.scheduled :
    /\ OnTime(k) => streamer.scheduled[k].start = streamer.scheduled[k - 1].end
    /\ \A i \in 1..(k - 1) :
         LET d == Duration(streamer.scheduled[i].data)
         IN  /\ \A j \in (i + 1)..k : OnTime(j)
             /\ \A j \in i..k : Duration(streamer.scheduled[j].data) = d
             => streamer.scheduled[k].start = streamer.scheduled[i].start + (k - i) * d

\* Three buffers of two sample periods each were enqueued on time, the third
\* one later than the first.
C18_Witness ==
  /\ Len(streamer.scheduled) = 3
  /\ \A j \in 2..3 : OnTime(j)
  /\ \A j \in 1..3 : Duration(streamer.scheduled[j].data) = 2
  /\ streamer.scheduled[3].at > streamer.scheduled[1].at

\* C19: within a run, buffer k starts at the later of its arrival and the end
\* of buffer k - 1; no buffer starts before the previous one ends, and none is
\* scheduled before the time it arrived.
C19_UnderrunRecovery ==
  \A k \in DOMAIN streamer.scheduled :
    /\ streamer.scheduled[k].start >= streamer.scheduled[k].at
    /\ SameRun(k) =>
         /\ streamer.scheduled[k].start =
              Max(streamer.scheduled[k].at, streamer.scheduled[k - 1].end)
         /\ streamer.scheduled[k].start >= streamer.scheduled[k - 1].end

\* A buffer arrived after the previous one had ended.
C19_Witness ==
  \E k \in DOMAIN streamer.scheduled :
    SameRun(k) /\ streamer.scheduled[k].at > streamer.scheduled[k - 1].end

\* C20: every buffer still scheduled was enqueued after the last flush, and
\* the first buffer enqueued after a flush starts at its arrival time, not at
\* the end of the last buffer scheduled before the flush.
C20_FlushCorrectness ==
  /\ \A q \in DOMAIN streamer.queue : streamer.queue[q].flushes = streamer.stopCalls
  /\ \A k \in DOMAIN streamer.scheduled :
       (k > 1 /\ ~SameRun(k)) => streamer.scheduled[k].start = streamer.scheduled[k].at

\* A buffer was enqueued after a flush, before the end of a buffer that the
\* flush had cancelled.
C20_Witness ==
  \E k \in DOMAIN streamer.scheduled :
    /\ k > 1
    /\ ~SameRun(k)
    /\ streamer.scheduled[k].at < streamer.scheduled[k - 1].end

\* ------------------------------------------------------------- frame codec runs
\* Every PCM16 buffer of the bounded set is encoded as onmessage encodes it
\* (line 204) and decoded again.
CodecInit ==
  /\ RecInit /\ CoordInit /\ MixInit /\ FramesInit /\ LibInit
  /\ \E buffer \in Buffers : codec = NewCodec(buffer)

encodeFrame ==
  /\ codec.phase = "raw"
  /\ codec' = [codec EXCEPT !.text = arrayBufferToBase64(codec.buffer),
                            !.phase = "encoded"]
  /\ UNCHANGED <<recVars, coordVars, mixVars, frames, tools, lastOp, turns, toolCalls>>

DecodeFrame ==
  /\ codec.phase = "encoded"
  /\ codec' = [codec EXCEPT !.decoded = decodeFrame(codec.text), !.phase = "decoded"]
  /\ UNCHANGED <<recVars, coordVars, mixVars, frames, tools, lastOp, turns, toolCalls>>

CodecNext == encodeFrame \/ DecodeFrame

CodecSpec == CodecInit /\ [][CodecNext]_vars

\* C21: decoding the encoding of a PCM16 buffer gives the buffer back, and the
\* transport string is the encoding of no other buffer.
C21_FrameRoundTrip ==
  /\ codec.phase = "decoded" => codec.decoded = codec.buffer
  /\ codec.phase # "raw" =>
       \A other \in Buffers :
         Len(other) <= 2 /\ other # codec.buffer => arrayBufferToBase64(other) # codec.text

\* A buffer of three samples with bytes above 127 went through the codec.
C21_Witness ==
  /\ codec.phase = "decoded"
  /\ Len(codec.buffer) = 6
  /\ \E i \in DOMAIN codec.buffer : codec.buffer[i] > 127

\* ------------------------------------------------------------- session claims
\* disconnect() has returned and no capture has been requested since: the
\* coordinator holds no recorder and no connectWithScreenAudio() is under way.
AfterDisconnect ==
  /\ hook.audioRecorderRef = 0
  /\ resuming = <<>>
  /\ continuations = <<>>

\* C22: once disconnect() has returned, no step passes a further chunk to
\* client.sendRealtimeInput.
C22_NothingSentAfterDisconnect == [][AfterDisconnect => sent' = sent]_vars

\* ------------------------------------------------------------- sync claims
\* No effect and no connect call is pending.
EffectsHaveRun == resuming = <<>> /\ NoMicrotask

\* C23: once the streamer exists, its master gain is 1 when isVolumeEnabled
\* is true and 0 when it is false.
C23_GainFollowsVolumeEnabled ==
  streamer.created /\ EffectsHaveRun =>
    streamer.gain = (IF hook.isVolumeEnabled THEN 1 ELSE 0)

\* C24: once the streamer exists, the pad plays exactly when
\* backgroundPadEnabled is true, and then at the current backgroundPadVolume.
C24_PadFollowsSettings ==
  streamer.created /\ EffectsHaveRun =>
    /\ streamer.padLoops >= 1 <=> settings.backgroundPadEnabled
    /\ streamer.padLoops >= 1 => streamer.padArg = settings.backgroundPadVolume

\* C25: recording is true only while the recorder holds a capture stream.
C25_RecordingOnlyWhileStreamHeld ==
  \A r \in Rec : rec[r].recording => rec[r].stream # 0

\* C26: connected becomes true only in a step where the client, connecting,
\* emits 'open'; a 'close' event and disconnect() leave it false; disconnect()
\* clears the recorder reference and calls stop() exactly once on the recorder
\* that was held and on no other, and no recorder is ever stopped twice.
C26_ConnectedFollowsSession ==
  [][ /\ hook'.connected /\ ~hook.connected
           => /\ client.status = "connecting"
              /\ client'.status = "connected"
              /\ lastEvent' = "open"
      /\ CloseEvent => ~hook'.connected
      /\ disconnect
           => /\ ~hook'.connected
              /\ hook'.audioRecorderRef = 0
              /\ \A r \in Rec :
                   Len(stops'[r]) = Len(stops[r])
                                      + (IF r = hook.audioRecorderRef THEN 1 ELSE 0)
      /\ \A r \in Rec : Len(stops'[r]) <= 1 ]_vars

\* disconnect() ran after the last 'open' event, with a recorder held.
C26_Witness ==
  /\ lastEvent = "open"
  /\ ~hook.connected
  /\ hook.audioRecorderRef = 0
  /\ \E r \in Rec : Len(stops[r]) = 1

\* C27: the synchronous part of connect() and connectWithScreenAudio() leaves
\* no earlier session live (the client is disconnected, or connecting in a
\* session opened by that very call); every call whose resume() has settled,
\* fulfilled or rejected, goes on to client.connect(config) or to the screen
\* capture that precedes it; and every call started has invoked
\* client.connect(config) or still waits to.
C27_DisconnectThenConnect ==
  [][ /\ connect \/ connectWithScreenAudio
           => \/ client'.status = "disconnected" /\ client'.invoked = client.invoked
              \/ /\ client'.status = "connecting"
                 /\ client'.session = client.session + 1
                 /\ client'.invoked = client.invoked + 1
      /\ ResumeSettled
           => IF Head(resuming).kind = "connect"
                THEN client'.invoked = client.invoked + 1
                ELSE Len(continuations') = Len(continuations) + 1
      /\ screenContinuation => client'.invoked = client.invoked + 1
      /\ client'.invoked + Len(resuming') + Len(continuations')
           = hook'.connects + hook'.screens ]_vars

\* A resume() was rejected, every call has reached client.connect(config), and
\* a second session was opened after the first.
C27_Witness ==
  /\ observed.resumeRejected
  /\ resuming = <<>>
  /\ continuations = <<>>
  /\ client.invoked = hook.connects + hook.screens
  /\ client.session >= 2

\* The turns onToolCall writes for one event.
TurnsFor(functionCalls) ==
  [ i \in 1..Len(functionCalls) |->
      [ role |-> "system", kind |-> "trigger", name |-> functionCalls[i].name,
        isFinal |-> TRUE ] ]
  \o (IF Len(functionCalls) > 0
        THEN << [ role |-> "system", kind |-> "response", isFinal |-> TRUE,
                  functionResponses |->
                    [ i \in 1..Len(functionCalls) |->
                        [ id |-> functionCalls[i].id, name |-> functionCalls[i].name,
                          response |-> [ result |-> "ok" ] ] ] ] >>
        ELSE << >>)

RECURSIVE LogAfter(_)
LogAfter(k) ==
  IF k = 0 THEN << >> ELSE LogAfter(k - 1) \o TurnsFor(toolCalls.received[k])

\* C28: every 'toolcall' event got exactly one tool response, with one function
\* response per function call, in the same order, carrying that call's id and
\* name and the result 'ok'; the log holds, event after event, one trigger turn
\* per function call and a summary turn exactly for the events with at least
\* one function call.
C28_ToolCallAnswered ==
  /\ Len(toolCalls.responses) = Len(toolCalls.received)
  /\ \A k \in DOMAIN toolCalls.received :
       LET f == toolCalls.received[k]
           r == toolCalls.responses[k].functionResponses
       IN  /\ Len(r) = Len(f)
           /\ \A i \in DOMAIN f :
                /\ r[i].id = f[i].id
                /\ r[i].name = f[i].name
                /\ r[i].response.result = "ok"
  /\ turns = LogAfter(Len(toolCalls.received))

\* An event without function calls and one with two different function calls.
C28_Witness ==
  /\ \E k \in DOMAIN toolCalls.received : Len(toolCalls.received[k]) = 0
  /\ \E k \in DOMAIN toolCalls.received :
       /\ Len(toolCalls.received[k]) = 2
       /\ toolCalls.received[k][1].id # toolCalls.received[k][2].id
       /\ toolCalls.received[k][1].name # toolCalls.received[k][2].name

\* C29: no two tools of the tools store have the same name.
C29_ToolNamesDistinct ==
  \A i, j \in DOMAIN tools : tools[i].name = tools[j].name => i = j

\* addTool skipped the names in use and took the first free one, left behind by
\* a removal.
C29_Witness ==
  /\ lastOp.op = "addTool"
  /\ Len(tools) = 3
  /\ tools[3].name = "new_function_1"
  /\ hasName(tools, "new_function")
  /\ hasName(tools, "new_function_2")

NameTaken(before, oldName, updatedTool) ==
  /\ oldName # updatedTool.name
  /\ \E j \in DOMAIN before : before[j].name = updatedTool.name

\* C30: after updateTool(oldName, updatedTool) the list is the one it found if
\* the new name differs from oldName and is in use; otherwise it has the same
\* length, updatedTool in the place of every tool named oldName and every other
\* tool where it was.
C30_UpdateToolReplacesInPlace ==
  lastOp.op = "updateTool" =>
    IF NameTaken(lastOp.before, lastOp.oldName, lastOp.updatedTool)
      THEN tools = lastOp.before
      ELSE /\ Len(tools) = Len(lastOp.before)
           /\ \A i \in DOMAIN tools :
                tools[i] = IF lastOp.before[i].name = lastOp.oldName
                             THEN lastOp.updatedTool
                             ELSE lastOp.before[i]
           /\ ~hasName(lastOp.before, lastOp.oldName) => tools = lastOp.before

\* A rename of an existing tool to the name of another one was rejected.
C30_Witness ==
  /\ lastOp.op = "updateTool"
  /\ lastOp.oldName # lastOp.updatedTool.name
  /\ hasName(lastOp.before, lastOp.oldName)
  /\ hasName(lastOp.before, lastOp.updatedTool.name)
  /\ tools = lastOp.before

\* C31: right after setLanguage or setMediaTitle the system prompt is the one
\* generated from the language and the media title the store then holds,
\* whatever the prompt was before; and from every state, setting a language
\* and a title in either order gives the same prompt.
C31_PromptFollowsLanguageAndTitle ==
  /\ lastOp.op \in {"setLanguage", "setMediaTitle"}
       => settings.systemPrompt
            = generateSystemPrompt(settings.language, settings.mediaTitle)
  /\ \A language \in Languages, title \in MediaTitles :
       setMediaTitle(setLanguage(settings, language), title).systemPrompt
         = setLanguage(setMediaTitle(settings, title), language).systemPrompt

\* setLanguage replaced a typed prompt while a media title was set.
C31_Witness ==
  /\ lastOp.op = "setLanguage"
  /\ lastOp.before.systemPrompt = "Answer briefly."
  /\ lastOp.before.mediaTitle = "Dune"
  /\ settings.language = "French"
  /\ settings.systemPrompt # lastOp.before.systemPrompt

====
